---- MODULE Spec2Model ----
(***************************************************************************)
(* Chess client (React + zustand store) talking to the game server.        *)
(* State: the store (board, moveHistory, turn, gameOver, selectedSquare,   *)
(* loading, error), the App / Chessboard component state (gameMode,        *)
(* aiColor, isAITurn, lastAIMoveTime), the wall clock, the HTTP calls in   *)
(* flight and the server's game.                                           *)
(***************************************************************************)
EXTENDS Integers, Sequences, FiniteSets, TLC

VARIABLES
  board,          \* store.board: [row][col] -> piece or null
  moveHistory,    \* store.moveHistory
  turn,           \* store.turn
  gameOver,       \* store.gameOver
  selectedSquare, \* store.selectedSquare
  loading,        \* store.loading
  error,          \* store.error
  gameMode,       \* App useState gameMode
  aiColor,        \* App useState aiColor
  isAITurn,       \* Chessboard useState isAITurn (request in flight flag)
  timeSinceLastMove, \* Date.now() - lastAIMoveTime, saturating at MIN_INTERVAL
  effectPending,  \* a dependency of the AI effect changed, effect not yet run
  calls,          \* HTTP calls in flight (request sent / response on its way)
  server,         \* the server's game: board, turn, game_over, move_history
  lastOutcome,    \* observer: how the last advisory attempt, movePiece or
                  \* direct sendMove call ended
  disruptions,    \* resets, mode changes and request failures so far
  selector,       \* AIStrategySelector useState: config, loading,
                  \* useMultiMoveCache, cacheSize
  aiConfig,       \* the server's strategy configuration
  serverMode,     \* the server's game mode and AI colour
  chat,           \* ChatInterface useState: messages, inputMessage, isLoading
  planCache       \* the server's PlanCache: the Plan and its requests

vars == <<board, moveHistory, turn, gameOver, selectedSquare, loading, error,
          gameMode, aiColor, isAITurn, timeSinceLastMove, effectPending,
          calls, server, lastOutcome, disruptions, selector, aiConfig,
          serverMode, chat, planCache>>

strategyVars == <<selector, aiConfig>>

panelVars == <<chat, planCache>>

storeVars == <<board, moveHistory, turn, gameOver, selectedSquare, loading, error>>

----------------------------------------------------------------------------
(* Bounds *)

TickMs == 1000       \* granularity of the clock
MaxMoves == 2        \* moves after which no further move is started
MaxInFlight == 2     \* user-started calls are not added beyond this many in flight
MaxModeCalls == 2    \* game-mode requests in flight at a time
MaxDisruptions == 2  \* resets, mode changes and request failures in one run

(* Program constants *)

MIN_INTERVAL == 2000

----------------------------------------------------------------------------
(* Squares, pieces, the boundary representation *)

files == <<"a", "b", "c", "d", "e", "f", "g", "h">>
ranks == <<"8", "7", "6", "5", "4", "3", "2", "1">>

Rows == 0..7
Cols == 0..7
Squares == Rows \X Cols
Labels == {<<files[i], ranks[j]>> : i \in 1..8, j \in 1..8}

NoSquare == <<>>
NullPiece == [type |-> "none", color |-> "none"]
NoError == "null"

Other(c) == IF c = "white" THEN "black" ELSE "white"

toUpperCase(code) ==
  CASE code = "k" -> "K" [] code = "q" -> "Q" [] code = "r" -> "R"
    [] code = "b" -> "B" [] code = "n" -> "N" [] code = "p" -> "P"
    [] OTHER -> code

\* files[col] + ranks[row] of sendMove (0-based indices in the source)
SquareLabel(sq) == <<files[sq[2] + 1], ranks[sq[1] + 1]>>

DecodePiece(code) ==
  IF code = "." THEN NullPiece
  ELSE [type |-> toUpperCase(code),
        color |-> IF code = toUpperCase(code) THEN "white" ELSE "black"]

backendBoardToFrontend(b) ==
  [sq \in Squares |-> DecodePiece(b[<<files[sq[2] + 1], ranks[sq[1] + 1]>>])]

BackRank == <<"R", "N", "B", "Q", "K", "B", "N", "R">>

getInitialBoard ==
  [sq \in Squares |->
     CASE sq[1] = 0 -> [type |-> BackRank[sq[2] + 1], color |-> "black"]
       [] sq[1] = 1 -> [type |-> "P", color |-> "black"]
       [] sq[1] = 6 -> [type |-> "P", color |-> "white"]
       [] sq[1] = 7 -> [type |-> BackRank[sq[2] + 1], color |-> "white"]
       [] OTHER -> NullPiece]

----------------------------------------------------------------------------
(* The server's game (MoveApplier of the design) *)

LowerOf(t) ==
  CASE t = "K" -> "k" [] t = "Q" -> "q" [] t = "R" -> "r"
    [] t = "B" -> "b" [] t = "N" -> "n" [] OTHER -> "p"

FileIndex(f) == CHOOSE i \in 1..8 : files[i] = f

InitialCodes ==
  [l \in Labels |->
     CASE l[2] = "8" -> LowerOf(BackRank[FileIndex(l[1])])
       [] l[2] = "7" -> "p"
       [] l[2] = "2" -> "P"
       [] l[2] = "1" -> BackRank[FileIndex(l[1])]
       [] OTHER -> "."]

InitialGame ==
  [board |-> InitialCodes, turn |-> "white", game_over |-> FALSE,
   move_history |-> <<>>]

CodeColor(code) == IF code = toUpperCase(code) THEN "white" ELSE "black"

ValidMove(g, from, to) ==
  /\ ~g.game_over
  /\ from # to
  /\ g.board[from] # "."
  /\ CodeColor(g.board[from]) = g.turn

ApplyMove(g, from, to) ==
  LET piece == g.board[from]
      captured == g.board[to]
  IN [board |-> [g.board EXCEPT ![to] = piece, ![from] = "."],
      turn |-> Other(g.turn),
      game_over |-> (toUpperCase(captured) = "K"),
      move_history |-> Append(g.move_history,
         [from_pos |-> from, to_pos |-> to, piece |-> toUpperCase(piece),
          color |-> g.turn, captured_piece |-> captured,
          is_capture |-> (captured # "."),
          turn_number |-> (Len(g.move_history) \div 2) + 1])]

----------------------------------------------------------------------------
(* Inputs *)

\* squares the user clicks and the advisor moves between: e2, e4, e8
ClickSquares == {<<6, 4>>, <<4, 4>>, <<0, 4>>}
ClickLabels == {SquareLabel(sq) : sq \in ClickSquares}

ModeChoices == {<<"human_vs_human", "black">>, <<"human_vs_ai", "black">>,
                <<"human_vs_ai", "white">>}

----------------------------------------------------------------------------
(* HTTP calls *)

\* n tells apart calls that are otherwise the same request
SameRequest(kind, origin, arg) ==
  {c \in calls : c.kind = kind /\ c.origin = origin /\ c.arg = arg}

NewCall(kind, origin, arg) ==
  [n |-> CHOOSE i \in 0..Cardinality(calls) :
           \A c \in SameRequest(kind, origin, arg) : c.n # i,
   kind |-> kind, origin |-> origin, arg |-> arg,
   result |-> "pending", data |-> <<>>]

Calls(kind) == {c \in calls : c.kind = kind}

Snapshot(g) == <<g>>

UserMayCall == Cardinality(calls) < MaxInFlight

Disrupt ==
  /\ disruptions < MaxDisruptions
  /\ disruptions' = disruptions + 1

\* dependencies of the AI effect that actions other than the effect change;
\* lastAIMoveTime, the seventh dependency, is set by the effect alone and
\* always together with isAITurn
Deps == <<gameMode, turn, aiColor, gameOver, loading, isAITurn>>

----------------------------------------------------------------------------
(* AIStrategySelector: its state before the configuration is fetched *)

NoConfig == <<>>
NaN == <<>>

\* useState(null), useState(false), useState(true), useState(5)
SelectorInit ==
  [config |-> NoConfig, loading |-> FALSE, useMultiMoveCache |-> TRUE,
   cacheSize |-> <<5>>]

DefaultConfig == [use_multi_move_cache |-> TRUE, cache_size |-> 5]

\* ChatInterface: useState([]), useState(''), useState(false). sends counts
\* the messages sent so far; cleared (an observer) holds the messages that
\* clearChat removed
ChatInit ==
  [messages |-> <<>>, inputMessage |-> "", isLoading |-> FALSE, sends |-> 0,
   cleared |-> {}]

Range(f) == {f[i] : i \in DOMAIN f}

NoPlan == <<>>

\* no Plan, no request to the advisory service in flight. requests counts
\* the requests made so far. Observers: stale holds the numbers of the
\* Plans a configuration change invalidated, discarded those of the Plans
\* a fingerprint mismatch discarded, last is the outcome of the latest
\* access
PlanCacheInit ==
  [plan |-> NoPlan, inflight |-> {}, requests |-> 0, stale |-> {},
   discarded |-> {}, last |-> [kind |-> "none"]]

----------------------------------------------------------------------------
(* Initial state: both components are mounted, each mount effect has       *)
(* called fetchBoard, and the AI effect has run once (human_vs_human).     *)

Init ==
  /\ board = getInitialBoard
  /\ moveHistory = <<>>
  /\ turn = "white"
  /\ gameOver = FALSE
  /\ selectedSquare = NoSquare
  /\ loading = TRUE
  /\ error = NoError
  /\ gameMode = "human_vs_human"
  /\ aiColor = "black"
  /\ isAITurn = FALSE
  /\ timeSinceLastMove = MIN_INTERVAL
  /\ effectPending = FALSE
  /\ calls = {[n |-> 0, kind |-> "fetch", origin |-> "Chessboard", arg |-> <<>>,
               result |-> "pending", data |-> <<>>],
              [n |-> 0, kind |-> "fetch", origin |-> "App", arg |-> <<>>,
               result |-> "pending", data |-> <<>>]}
  /\ server = InitialGame
  /\ lastOutcome = "none"
  /\ disruptions = 0
  /\ selector = SelectorInit
  /\ aiConfig = DefaultConfig
  /\ serverMode = <<"human_vs_human", "black">>
  /\ chat = ChatInit
  /\ planCache = PlanCacheInit

----------------------------------------------------------------------------
(* The clock *)

Elapse(t) == IF t + TickMs >= MIN_INTERVAL THEN MIN_INTERVAL ELSE t + TickMs

Tick ==
  /\ ~effectPending
  /\ timeSinceLastMove < MIN_INTERVAL
  /\ timeSinceLastMove' = Elapse(timeSinceLastMove)
  /\ UNCHANGED <<storeVars, gameMode, aiColor, isAITurn, effectPending, calls,
                 server, lastOutcome, disruptions>>
  /\ UNCHANGED strategyVars
  /\ UNCHANGED serverMode
  /\ UNCHANGED panelVars

----------------------------------------------------------------------------
(* Chessboard: the AI effect, checkAndMakeAIMove *)

\* variants: the rate-limit check left out; the window cut to one tick
RateLimited_off == FALSE

RateLimited_short == timeSinceLastMove < TickMs

RateLimited == timeSinceLastMove < MIN_INTERVAL

\* variant: the in-flight flag left out of the guard
ShouldRequestAI_noFlag ==
  /\ gameMode = "human_vs_ai"
  /\ turn = aiColor
  /\ ~gameOver
  /\ ~loading

ShouldRequestAI ==
  /\ gameMode = "human_vs_ai"
  /\ turn = aiColor
  /\ ~gameOver
  /\ ~loading
  /\ ~isAITurn

checkAndMakeAIMove ==
  /\ effectPending
  /\ IF ~RateLimited /\ ShouldRequestAI
       THEN /\ isAITurn' = TRUE
            /\ timeSinceLastMove' = 0
            /\ calls' = calls \cup {NewCall("aiplay", "effect", <<>>)}
            /\ effectPending' = TRUE
       ELSE /\ effectPending' = FALSE
            /\ UNCHANGED <<isAITurn, timeSinceLastMove, calls>>
  /\ UNCHANGED <<storeVars, gameMode, aiColor, server, lastOutcome, disruptions>>
  /\ UNCHANGED strategyVars
  /\ UNCHANGED serverMode
  /\ UNCHANGED panelVars

----------------------------------------------------------------------------
(* Chessboard: handleSquareClick, and the store's sendMove it starts *)

sendMoveStart(from, to) ==
  IF gameOver
    THEN /\ selectedSquare' = NoSquare
         /\ UNCHANGED <<loading, error, calls>>
    ELSE /\ loading' = TRUE
         /\ error' = NoError
         /\ calls' = calls \cup
              {NewCall("move", "click", <<SquareLabel(from), SquareLabel(to)>>)}
         /\ UNCHANGED selectedSquare

ClickBlocked ==
  \/ loading \/ gameOver \/ isAITurn
  \/ (gameMode = "human_vs_ai" /\ turn = aiColor)

handleSquareClick(sq) ==
  /\ ~effectPending
  /\ ~ClickBlocked
  /\ IF selectedSquare # NoSquare
       THEN IF selectedSquare = sq
              THEN /\ selectedSquare' = NoSquare
                   /\ UNCHANGED <<loading, error, calls>>
              ELSE /\ UserMayCall
                   /\ Len(server.move_history) < MaxMoves
                   /\ sendMoveStart(selectedSquare, sq)
       ELSE /\ board[sq] # NullPiece
            /\ board[sq].color = turn
            /\ selectedSquare' = sq
            /\ UNCHANGED <<loading, error, calls>>
  /\ UNCHANGED <<board, moveHistory, turn, gameOver, gameMode, aiColor,
                 isAITurn, timeSinceLastMove, server, lastOutcome, disruptions>>
  /\ effectPending' = (Deps' # Deps)
  /\ UNCHANGED strategyVars
  /\ UNCHANGED serverMode
  /\ UNCHANGED panelVars

----------------------------------------------------------------------------
(* App: the Reset button (disabled while loading) starts sendReset *)

ResetDisabled == loading

sendReset ==
  /\ ~effectPending
  /\ ~ResetDisabled
  /\ UserMayCall
  /\ Disrupt
  /\ loading' = TRUE
  /\ error' = NoError
  /\ calls' = calls \cup {NewCall("reset", "click", <<>>)}
  /\ UNCHANGED <<board, moveHistory, turn, gameOver, selectedSquare, gameMode,
                 aiColor, isAITurn, timeSinceLastMove, server, lastOutcome>>
  /\ effectPending' = (Deps' # Deps)
  /\ UNCHANGED strategyVars
  /\ UNCHANGED serverMode
  /\ UNCHANGED panelVars

----------------------------------------------------------------------------
(* GameModeSelector: handleModeChange sends the request *)

\* the options of the open dropdown: Human vs Human (ai_color defaults to
\* black), Human vs AI with the selected colour and, when Human vs AI is
\* the selected mode, the two colour buttons. selectedMode and
\* selectedAIColor are set together with App's gameMode and aiColor.
ModeOffered(mode, color) ==
  \/ mode = "human_vs_human" /\ color = "black"
  \/ mode = "human_vs_ai" /\ (color = aiColor \/ gameMode = "human_vs_ai")

handleModeChange(mode, color) ==
  /\ ~effectPending
  /\ ModeOffered(mode, color)
  /\ UserMayCall
  /\ Cardinality(Calls("mode")) < MaxModeCalls
  /\ Disrupt
  /\ calls' = calls \cup {NewCall("mode", "click", <<mode, color>>)}
  /\ UNCHANGED <<storeVars, gameMode, aiColor, isAITurn, timeSinceLastMove,
                 effectPending, server, lastOutcome>>
  /\ UNCHANGED strategyVars
  /\ UNCHANGED serverMode
  /\ UNCHANGED panelVars

----------------------------------------------------------------------------
(* The server handles a request and puts the response on its way *)

Pending(kind) == {c \in calls : c.kind = kind /\ c.result = "pending"}

Respond(c, result, data) ==
  calls' = (calls \ {c}) \cup {[c EXCEPT !.result = result, !.data = data]}

clientVars == <<storeVars, gameMode, aiColor, isAITurn, timeSinceLastMove,
                effectPending, lastOutcome, disruptions>>

ServerGetBoard ==
  /\ \E c \in Pending("fetch") : Respond(c, "ok", Snapshot(server))
  /\ UNCHANGED <<server, clientVars>>
  /\ UNCHANGED strategyVars
  /\ UNCHANGED serverMode
  /\ UNCHANGED panelVars

ServerMove ==
  /\ \E c \in Pending("move") :
       IF ValidMove(server, c.arg[1], c.arg[2])
         THEN /\ server' = ApplyMove(server, c.arg[1], c.arg[2])
              /\ Respond(c, "ok", Snapshot(server'))
         ELSE /\ Respond(c, "rejected", <<>>)
              /\ UNCHANGED server
  /\ UNCHANGED clientVars
  /\ UNCHANGED strategyVars
  /\ UNCHANGED serverMode
  /\ UNCHANGED panelVars

\* the server takes the requested mode and colour and acknowledges
ServerGameMode ==
  /\ \E c \in Pending("mode") :
       /\ serverMode' = <<c.arg[1], c.arg[2]>>
       /\ Respond(c, "ok", <<>>)
  /\ UNCHANGED <<server, clientVars>>
  /\ UNCHANGED strategyVars
  /\ UNCHANGED panelVars

\* reset discards any Plan
ServerReset ==
  /\ \E c \in Pending("reset") :
       /\ server' = InitialGame
       /\ Respond(c, "ok", Snapshot(InitialGame))
  /\ planCache' = [planCache EXCEPT !.plan = NoPlan]
  /\ UNCHANGED clientVars
  /\ UNCHANGED strategyVars
  /\ UNCHANGED serverMode
  /\ UNCHANGED chat

\* the advisor picks a move for the side to move, or reports no success
ServerAIPlay ==
  /\ \E c \in Pending("aiplay") :
       \/ /\ Len(server.move_history) < MaxMoves
          /\ \E from \in ClickLabels, to \in ClickLabels :
               /\ ValidMove(server, from, to)
               /\ server' = ApplyMove(server, from, to)
               /\ Respond(c, "ok", Snapshot(server'))
       \/ /\ Respond(c, "nosuccess", <<>>)
          /\ UNCHANGED server
  /\ UNCHANGED clientVars
  /\ UNCHANGED strategyVars
  /\ UNCHANGED serverMode
  /\ UNCHANGED panelVars

----------------------------------------------------------------------------
(* The client receives a response: the awaiting function continues *)

\* the api function throws: the request was rejected, or (a disruption) the
\* transport failed before or after the server handled it
Throws(c) ==
  \/ c.result \in {"rejected", "nosuccess"} /\ UNCHANGED disruptions
  \/ Disrupt

Returns(c) == c.result = "ok" /\ UNCHANGED disruptions

\* set({board, turn, gameOver, moveHistory, loading: false, error: null})
SetGame(data) ==
  /\ board' = backendBoardToFrontend(data.board)
  /\ turn' = (IF data.turn = "white" THEN "white" ELSE "black")
  /\ gameOver' = data.game_over
  /\ moveHistory' = data.move_history
  /\ loading' = FALSE
  /\ error' = NoError

\* catch: set({loading: false, error: errorMessage})
SetError(msg) ==
  /\ loading' = FALSE
  /\ error' = msg
  /\ UNCHANGED <<board, turn, gameOver, moveHistory>>

\* finally { setIsAITurn(false) } of checkAndMakeAIMove
AIReturn(outcome) ==
  /\ isAITurn' = FALSE
  /\ lastOutcome' = outcome

fetchBoardDone ==
  /\ ~effectPending
  /\ \E c \in Calls("fetch") :
       /\ calls' = calls \ {c}
       /\ \/ Returns(c) /\ SetGame(c.data[1])
          \/ Throws(c) /\ SetError("Failed to fetch board")
       /\ IF c.origin = "ai" THEN AIReturn("applied")
                             ELSE UNCHANGED <<isAITurn, lastOutcome>>
  /\ UNCHANGED <<selectedSquare, gameMode, aiColor, timeSinceLastMove, server>>
  /\ effectPending' = (Deps' # Deps)
  /\ UNCHANGED strategyVars
  /\ UNCHANGED serverMode
  /\ UNCHANGED panelVars

sendMoveDone ==
  /\ ~effectPending
  /\ \E c \in Calls("move") :
       /\ calls' = calls \ {c}
       /\ \/ Returns(c) /\ SetGame(c.data[1])
          \/ Throws(c) /\ SetError("Failed to make move")
  /\ selectedSquare' = NoSquare
  /\ UNCHANGED <<gameMode, aiColor, isAITurn, timeSinceLastMove, server,
                 lastOutcome>>
  /\ effectPending' = (Deps' # Deps)
  /\ UNCHANGED strategyVars
  /\ UNCHANGED serverMode
  /\ UNCHANGED panelVars

sendResetDone ==
  /\ ~effectPending
  /\ \E c \in Calls("reset") :
       \/ /\ Returns(c)
          /\ moveHistory' = c.data[1].move_history
          /\ loading' = TRUE
          /\ error' = NoError
          /\ calls' = (calls \ {c}) \cup {NewCall("fetch", "reset", <<>>)}
          /\ UNCHANGED <<board, turn, gameOver>>
       \/ /\ Throws(c)
          /\ SetError("Failed to reset game")
          /\ calls' = calls \ {c}
  /\ UNCHANGED <<selectedSquare, gameMode, aiColor, isAITurn, timeSinceLastMove,
                 server, lastOutcome>>
  /\ effectPending' = (Deps' # Deps)
  /\ UNCHANGED strategyVars
  /\ UNCHANGED serverMode
  /\ UNCHANGED panelVars

\* response.success: await fetchBoard()
AIMoveSucceeded(c) ==
  /\ loading' = TRUE
  /\ error' = NoError
  /\ calls' = (calls \ {c}) \cup {NewCall("fetch", "ai", <<>>)}
  /\ UNCHANGED <<isAITurn, lastOutcome>>

\* variant: no finally, the flag stays set after a failure
AIMoveFailed_keepsFlag(c) ==
  /\ calls' = calls \ {c}
  /\ UNCHANGED <<isAITurn, lastOutcome>>
  /\ UNCHANGED <<loading, error>>

\* success is false, or aiPlayMove threw: log, then finally
AIMoveFailed(c) ==
  /\ calls' = calls \ {c}
  /\ AIReturn("failed")
  /\ UNCHANGED <<loading, error>>

aiPlayMoveDone ==
  /\ ~effectPending
  /\ \E c \in Calls("aiplay") :
       \/ Returns(c) /\ AIMoveSucceeded(c)
       \/ Throws(c) /\ AIMoveFailed(c)
  /\ UNCHANGED <<board, moveHistory, turn, gameOver, selectedSquare, gameMode,
                 aiColor, timeSinceLastMove, server>>
  /\ effectPending' = (Deps' # Deps)
  /\ UNCHANGED strategyVars
  /\ UNCHANGED serverMode
  /\ UNCHANGED panelVars

\* App.handleGameModeChange, called by handleModeChange after setGameMode
handleGameModeChange(mode, color) ==
  /\ gameMode' = mode
  /\ aiColor' = color

\* setGameMode returns: setSelectedMode, setSelectedAIColor, onModeChange;
\* or it throws: alert, nothing changes
setGameModeDone ==
  /\ ~effectPending
  /\ \E c \in Calls("mode") :
       /\ calls' = calls \ {c}
       /\ \/ /\ c.result = "ok"
             /\ handleGameModeChange(c.arg[1], c.arg[2]) /\ UNCHANGED disruptions
          \/ Disrupt /\ UNCHANGED <<gameMode, aiColor>>
  /\ UNCHANGED <<storeVars, isAITurn, timeSinceLastMove, server, lastOutcome>>
  /\ effectPending' = (Deps' # Deps)
  /\ UNCHANGED strategyVars
  /\ UNCHANGED serverMode
  /\ UNCHANGED panelVars

----------------------------------------------------------------------------

Next ==
  \/ Tick
  \/ checkAndMakeAIMove
  \/ \E sq \in ClickSquares : handleSquareClick(sq)
  \/ sendReset
  \/ \E m \in ModeChoices : handleModeChange(m[1], m[2])
  \/ ServerGetBoard
  \/ ServerMove
  \/ ServerReset
  \/ ServerGameMode
  \/ ServerAIPlay
  \/ fetchBoardDone
  \/ sendMoveDone
  \/ sendResetDone
  \/ aiPlayMoveDone
  \/ setGameModeDone

Spec == Init /\ [][Next]_vars

\* the client's own steps and the game endpoints are scheduled fairly
FairClient ==
  /\ WF_vars(Tick)
  /\ WF_vars(checkAndMakeAIMove)
  /\ WF_vars(ServerGetBoard)
  /\ WF_vars(ServerMove)
  /\ WF_vars(ServerReset)
  /\ WF_vars(ServerGameMode)
  /\ WF_vars(fetchBoardDone)
  /\ WF_vars(sendMoveDone)
  /\ WF_vars(sendResetDone)
  /\ WF_vars(setGameModeDone)

\* every request is answered, the advisor's included
FairSpec ==
  Spec /\ FairClient /\ WF_vars(ServerAIPlay) /\ WF_vars(aiPlayMoveDone)

\* the advisor may never answer: fetch() of aiPlayMove has no timeout
HangingAdvisorSpec == Spec /\ FairClient

TypeOK ==
  /\ loading \in BOOLEAN /\ gameOver \in BOOLEAN /\ isAITurn \in BOOLEAN
  /\ turn \in {"white", "black"}
  /\ Cardinality(calls) <= MaxInFlight + 1

----------------------------------------------------------------------------
(* The store without a server: selectSquare, movePiece and reset work on    *)
(* the board in the browser. It keeps board, moveHistory, turn and          *)
(* selectedSquare; lastOutcome observes how the last movePiece call ended.  *)

MaxLocalMoves == 3   \* moves after which movePiece is not called again

\* squares the caller passes: e2, e4, e8 and e7
LocalSquares == ClickSquares \cup {<<1, 4>>}

serverSideVars == <<gameOver, loading, error, gameMode, aiColor, isAITurn,
                    timeSinceLastMove, effectPending, calls, server, disruptions>>

LocalInit ==
  /\ board = getInitialBoard
  /\ moveHistory = <<>>
  /\ turn = "white"
  /\ selectedSquare = NoSquare
  /\ lastOutcome = "none"
  /\ gameOver = FALSE /\ loading = FALSE /\ error = NoError
  /\ gameMode = "human_vs_human" /\ aiColor = "black" /\ isAITurn = FALSE
  /\ timeSinceLastMove = MIN_INTERVAL /\ effectPending = FALSE
  /\ calls = {} /\ server = InitialGame /\ disruptions = 0
  /\ selector = SelectorInit /\ aiConfig = DefaultConfig
  /\ serverMode = <<"human_vs_human", "black">>
  /\ chat = ChatInit
  /\ planCache = PlanCacheInit

selectSquare(square) ==
  /\ selectedSquare' = square
  /\ UNCHANGED <<board, moveHistory, turn, lastOutcome, serverSideVars>>
  /\ UNCHANGED strategyVars
  /\ UNCHANGED serverMode
  /\ UNCHANGED panelVars

\* `${piece.color} ${piece.type}: (${fromRow},${fromCol}) -> (${toRow},${toCol})`
HistoryLine(piece, from, to) == <<piece.color, piece.type, from, to>>

\* variant: the check of the piece and its colour left out
MayMove_unchecked(piece) == TRUE

\* if (!piece || piece.color !== turn) return
MayMove(piece) == piece # NullPiece /\ piece.color = turn

\* newBoard[toRow][toCol] = piece; newBoard[fromRow][fromCol] = null
\* variant: the source square is not cleared
MovedBoard_keepsSource(b, from, to) == [b EXCEPT ![to] = b[from]]

MovedBoard(b, from, to) == [b EXCEPT ![to] = b[from], ![from] = NullPiece]

movePiece(to) ==
  /\ Len(moveHistory) < MaxLocalMoves
  /\ IF selectedSquare = NoSquare \/ ~MayMove(board[selectedSquare])
       THEN /\ lastOutcome' = "rejected"
            /\ UNCHANGED <<board, moveHistory, turn, selectedSquare>>
       ELSE /\ board' = MovedBoard(board, selectedSquare, to)
            /\ moveHistory' = Append(moveHistory,
                  HistoryLine(board[selectedSquare], selectedSquare, to))
            /\ turn' = Other(turn)
            /\ selectedSquare' = NoSquare
            /\ lastOutcome' = "applied"
  /\ UNCHANGED serverSideVars
  /\ UNCHANGED strategyVars
  /\ UNCHANGED serverMode
  /\ UNCHANGED panelVars

reset ==
  /\ board' = getInitialBoard
  /\ moveHistory' = <<>>
  /\ turn' = "white"
  /\ selectedSquare' = NoSquare
  /\ UNCHANGED <<lastOutcome, serverSideVars>>
  /\ UNCHANGED strategyVars
  /\ UNCHANGED serverMode
  /\ UNCHANGED panelVars

LocalNext ==
  \/ \E sq \in LocalSquares : selectSquare(sq)
  \/ \E to \in LocalSquares : movePiece(to)
  \/ reset

LocalStoreSpec == LocalInit /\ [][LocalNext]_vars

----------------------------------------------------------------------------
(* The store called directly: sendMove is an exported function of the      *)
(* store, and a caller other than handleSquareClick does not check         *)
(* gameOver, loading or the selection before calling it.                   *)

sendMove(from, to) ==
  /\ ~effectPending
  /\ IF gameOver
       THEN /\ lastOutcome' = "ignored"
            /\ UNCHANGED <<loading, error, calls>>
       ELSE /\ UserMayCall
            /\ Len(server.move_history) < MaxMoves
            /\ loading' = TRUE
            /\ error' = NoError
            /\ calls' = calls \cup
                 {NewCall("move", "caller", <<SquareLabel(from), SquareLabel(to)>>)}
            /\ lastOutcome' = "sent"
  /\ UNCHANGED <<board, moveHistory, turn, gameOver, selectedSquare, gameMode,
                 aiColor, isAITurn, timeSinceLastMove, server, disruptions>>
  /\ effectPending' = (Deps' # Deps)
  /\ UNCHANGED strategyVars
  /\ UNCHANGED serverMode
  /\ UNCHANGED panelVars

StoreCallerNext ==
  \/ \E from \in ClickSquares, to \in ClickSquares : sendMove(from, to)
  \/ checkAndMakeAIMove
  \/ sendReset
  \/ ServerGetBoard
  \/ ServerMove
  \/ ServerReset
  \/ fetchBoardDone
  \/ sendMoveDone
  \/ sendResetDone

StoreCallerSpec == Init /\ [][StoreCallerNext]_vars

----------------------------------------------------------------------------
(* ConfigurationStore.set and the Plan *)

\* variant: the Plan survives a change of the configuration
Invalidated_keepsPlan(config) == planCache

\* a change of the configuration invalidates the Plan and cancels the
\* refill that is being awaited
Invalidated(config) ==
  IF config = aiConfig THEN planCache
  ELSE [planCache EXCEPT
          !.plan = NoPlan,
          !.inflight = {r \in @ : r.kind # "refill"},
          !.stale = @ \cup {e.plan : e \in Range(planCache.plan)}]

ConfigurationStore_set(config) ==
  /\ aiConfig' = config
  /\ planCache' = Invalidated(config)

----------------------------------------------------------------------------
(* AIStrategySelector and the server's strategy configuration *)

\* what the user types into the cache-size field (min and max of the input
\* do not keep typed values out)
CacheSizeTexts == {"", "0", "1", "7", "10", "11"}

\* parseInt(e.target.value); NaN for the empty field
parseInt(text) ==
  CASE text = "0" -> <<0>> [] text = "1" -> <<1>> [] text = "7" -> <<7>>
    [] text = "10" -> <<10>> [] text = "11" -> <<11>> [] OTHER -> NaN

gameSideVars == <<storeVars, gameMode, aiColor, isAITurn, timeSinceLastMove,
                  effectPending, server, lastOutcome, disruptions>>

\* cacheDepth in [1, 10]
ValidConfigs ==
  [use_multi_move_cache : BOOLEAN, cache_size : {1, 5, 10}]

\* the component is mounted and its effect has called fetchConfig
StrategyInit ==
  /\ board = getInitialBoard /\ moveHistory = <<>> /\ turn = "white"
  /\ gameOver = FALSE /\ selectedSquare = NoSquare /\ loading = FALSE
  /\ error = NoError /\ gameMode = "human_vs_human" /\ aiColor = "black"
  /\ isAITurn = FALSE /\ timeSinceLastMove = MIN_INTERVAL
  /\ effectPending = FALSE /\ server = InitialGame /\ lastOutcome = "none"
  /\ disruptions = 0
  /\ selector = SelectorInit
  /\ serverMode = <<"human_vs_human", "black">>
  /\ chat = ChatInit
  /\ planCache = PlanCacheInit
  /\ aiConfig \in ValidConfigs
  /\ calls = {[n |-> 0, kind |-> "config", origin |-> "mount", arg |-> <<>>,
               result |-> "pending", data |-> <<>>]}

setCacheSize(text) ==
  /\ selector.config # NoConfig
  /\ selector.useMultiMoveCache
  /\ selector' = [selector EXCEPT !.cacheSize = parseInt(text)]
  /\ UNCHANGED <<aiConfig, calls, gameSideVars, serverMode, panelVars>>

setUseMultiMoveCache(checked) ==
  /\ selector.config # NoConfig
  /\ selector' = [selector EXCEPT !.useMultiMoveCache = checked]
  /\ UNCHANGED <<aiConfig, calls, gameSideVars, serverMode, panelVars>>

\* the button is disabled while loading
handleStrategyChange ==
  /\ selector.config # NoConfig
  /\ ~selector.loading
  /\ selector' = [selector EXCEPT !.loading = TRUE]
  /\ calls' = calls \cup
       {NewCall("strategy", "click",
                <<selector.useMultiMoveCache, selector.cacheSize>>)}
  /\ UNCHANGED <<aiConfig, gameSideVars, serverMode, panelVars>>

\* ConfigurationStore.set: a cacheDepth outside [1, 10] (or none at all) is
\* rejected and the configuration stays as it was
InvalidConfig(size) == size = NaN \/ size[1] < 1 \/ size[1] > 10

ServerSetStrategy ==
  /\ \E c \in Pending("strategy") :
       IF InvalidConfig(c.arg[2])
         THEN /\ Respond(c, "rejected", <<>>)
              /\ UNCHANGED aiConfig
              /\ UNCHANGED planCache
         ELSE /\ ConfigurationStore_set([use_multi_move_cache |-> c.arg[1],
                                         cache_size |-> c.arg[2][1]])
              /\ Respond(c, "ok", <<>>)
  /\ UNCHANGED <<selector, gameSideVars, serverMode, chat>>

\* ConfigurationStore.get
ServerGetConfig ==
  /\ \E c \in Pending("config") : Respond(c, "ok", <<aiConfig>>)
  /\ UNCHANGED <<selector, aiConfig, gameSideVars, serverMode, panelVars>>

\* variant: the form's values are taken for the configuration in force
ShownConfig_fromForm(response) ==
  [use_multi_move_cache |-> selector.useMultiMoveCache,
   cache_size |-> IF selector.cacheSize = NaN THEN 0 ELSE selector.cacheSize[1]]

\* setConfig(response)
ShownConfig(response) == response

\* await setAIStrategy(...) returns: await fetchConfig(). It throws (the
\* request was rejected, or the transport failed at any point): catch, then
\* finally setLoading(false)
setAIStrategyDone ==
  /\ \E c \in Calls("strategy") :
       \/ /\ c.result = "ok"
          /\ calls' = (calls \ {c}) \cup {NewCall("config", "click", <<>>)}
          /\ UNCHANGED selector
       \/ /\ calls' = calls \ {c}
          /\ selector' = [selector EXCEPT !.loading = FALSE]
  /\ UNCHANGED <<aiConfig, gameSideVars, serverMode, panelVars>>

\* fetchConfig continues after getAIConfig: the three setters, or (the
\* call threw) its catch, which only logs. When handleStrategyChange awaited
\* it, finally setLoading(false) follows.
fetchConfigDone ==
  /\ \E c \in Calls("config") :
       /\ calls' = calls \ {c}
       /\ LET nowLoading ==
                IF c.origin = "click" THEN FALSE ELSE selector.loading
          IN \/ /\ c.result = "ok"
                /\ selector' =
                     [config |-> <<ShownConfig(c.data[1])>>,
                      loading |-> nowLoading,
                      useMultiMoveCache |-> c.data[1].use_multi_move_cache,
                      cacheSize |-> <<c.data[1].cache_size>>]
             \/ selector' = [selector EXCEPT !.loading = nowLoading]
  /\ UNCHANGED <<aiConfig, gameSideVars, serverMode, panelVars>>

StrategyNext ==
  \/ \E text \in CacheSizeTexts : setCacheSize(text)
  \/ \E checked \in BOOLEAN : setUseMultiMoveCache(checked)
  \/ handleStrategyChange
  \/ ServerSetStrategy
  \/ ServerGetConfig
  \/ setAIStrategyDone
  \/ fetchConfigDone

StrategySpec == StrategyInit /\ [][StrategyNext]_vars

----------------------------------------------------------------------------
(* Steps and conditions the properties speak about *)

gameVars == <<board, turn, gameOver, moveHistory>>

\* checkAndMakeAIMove sends aiPlayMove in this step
AIRequestIssued ==
  \E c \in calls' : c.kind = "aiplay" /\ c.result = "pending" /\ c \notin calls

\* the failure path of checkAndMakeAIMove runs in this step
AIRequestFailedStep == \E c \in Calls("aiplay") : calls' = calls \ {c}

\* the fetchBoard that follows a successful aiPlayMove stores the new game
\* in this step
AIMoveCompleted ==
  /\ \E c \in Calls("fetch") : c.origin = "ai" /\ calls' = calls \ {c}
  /\ error' = NoError

\* a move request (human or advisory) is sent in this step
MoveRequestSent ==
  \E c \in calls' :
     c.kind \in {"move", "aiplay"} /\ c.result = "pending" /\ c \notin calls

\* the fetchBoard that ends sendReset stores the game in this step
ResetCompleted ==
  /\ \E c \in Calls("fetch") : c.origin = "reset" /\ calls' = calls \ {c}
  /\ error' = NoError

AdvisoryDue ==
  /\ gameMode = "human_vs_ai"
  /\ turn = aiColor
  /\ ~gameOver
  /\ ~isAITurn

MoveInProgress == Calls("move") # {}
AdvisoryInProgress == Calls("aiplay") # {}
ResetInProgress ==
  \/ Calls("reset") # {}
  \/ \E c \in Calls("fetch") : c.origin = "reset"

\* the local store: the selected square is empty or holds a piece of the
\* side that is not to move
InvalidSource ==
  /\ selectedSquare # NoSquare
  /\ \/ board[selectedSquare] = NullPiece
     \/ board[selectedSquare].color # turn

\* the local store: reset runs in this step
LocalResetStep ==
  board' = getInitialBoard /\ moveHistory' = <<>> /\ turn' = "white"

\* the local store: movePiece applies a move in this step
LocalMoveApplied == Len(moveHistory') = Len(moveHistory) + 1

PieceCount(b) == Cardinality({sq \in Squares : b[sq] # NullPiece})

\* MoveHistory: for (i = 0; i < length; i += 2) push {turn, white, black}
\* variant: the loop advances by one record
groupedMoves_stepOne(h) ==
  [k \in 1..Len(h) |->
     [turn |-> h[k].turn_number, white |-> h[k],
      black |-> IF k + 1 <= Len(h) THEN <<h[k + 1]>> ELSE <<>>]]

\* black is <<>> where moveHistory[i + 1] is undefined
groupedMoves(h) ==
  [k \in 1..((Len(h) + 1) \div 2) |->
     [turn |-> h[2 * k - 1].turn_number, white |-> h[2 * k - 1],
      black |-> IF 2 * k <= Len(h) THEN <<h[2 * k]>> ELSE <<>>]]

\* Chessboard: {turn === 'white' ? 'Black' : 'White'} wins!
\* variant: the side to move is shown as the winner
Winner_sideToMove == IF turn = "white" THEN "White" ELSE "Black"

Winner == IF turn = "white" THEN "Black" ELSE "White"

ColourName(c) == IF c = "white" THEN "White" ELSE "Black"

\* the fetchBoard that ends sendReset returns in this step
ResetReturned ==
  \E c \in Calls("fetch") : c.origin = "reset" /\ calls' = calls \ {c}

RECURSIVE ReplayCodes(_)
ReplayCodes(h) ==
  IF h = <<>> THEN InitialCodes
  ELSE LET b == ReplayCodes(SubSeq(h, 1, Len(h) - 1))
           m == h[Len(h)]
       IN [b EXCEPT ![m.to_pos] = b[m.from_pos], ![m.from_pos] = "."]

----------------------------------------------------------------------------
(* Properties *)

\* C1: at most one aiPlayMove request of the effect is outstanding at any
\* moment, whatever triggers re-run the effect and whatever the rate-limit
\* timer says.
C1_OneAdvisoryRequest == Cardinality(Calls("aiplay")) <= 1

\* a trigger fires while a request is outstanding, the rate-limit window has
\* passed and every other condition of the guard holds
C1_Witness ==
  /\ Cardinality(Calls("aiplay")) = 1
  /\ effectPending
  /\ ~RateLimited
  /\ gameMode = "human_vs_ai" /\ turn = aiColor /\ ~gameOver /\ ~loading

\* C2: when the game mode is no longer human_vs_ai at the time the advisory
\* move's result arrives, the result is discarded: board, turn, gameOver and
\* move history do not change.
C2_StaleAdvisoryDiscarded ==
  [][(AIMoveCompleted /\ gameMode # "human_vs_ai") => UNCHANGED gameVars]_vars

\* C3: whenever it is the advisory side's turn, the game is not over and no
\* advisory request is outstanding, a request is eventually issued (or the
\* turn, mode or game ends otherwise): the session does not stay in that
\* state for ever.
C3_AdvisoryEventuallyRequested ==
  AdvisoryDue ~> (isAITurn \/ gameOver \/ turn # aiColor \/ gameMode # "human_vs_ai")

\* C4 as stated: a request is issued only MIN_INTERVAL after the time
\* recorded for rate limiting, and that time is the completion time of the
\* last advisory move.
C4_RecordsCompletionTime ==
  [][/\ AIRequestIssued => timeSinceLastMove >= MIN_INTERVAL
     /\ AIMoveCompleted => timeSinceLastMove' = 0]_vars

\* C4 amended: a request is issued only if at least MIN_INTERVAL has elapsed
\* since the previous request was issued; issuing restarts the window.
C4_MinIntervalBetweenRequests ==
  [][AIRequestIssued =>
       (timeSinceLastMove >= MIN_INTERVAL /\ timeSinceLastMove' = 0)]_vars

\* a second request is out after an advisory move was completed
C4_Witness == Calls("aiplay") # {} /\ lastOutcome = "applied"

\* C5: once gameOver is true it stays true and no move request, human or
\* advisory, is sent, as long as the server's game has not been reset.
C5_TerminationAbsorbing ==
  [][(gameOver /\ server.game_over) => (gameOver' /\ ~MoveRequestSent)]_vars

C7_NoImmediateRetry ==
  [][AIRequestFailedStep => ~(ShouldRequestAI' /\ ~RateLimited')]_vars

\* C7 amended: after a failure the next request is issued no earlier than
\* MIN_INTERVAL after the failed request was issued.
C7_RetryAfterIntervalSinceIssue ==
  [][(AIRequestIssued /\ lastOutcome = "failed") =>
       timeSinceLastMove >= MIN_INTERVAL]_vars

\* a request is out again after a failure
C7_Witness == Calls("aiplay") # {} /\ lastOutcome = "failed"

\* C8: an outstanding advisory request always resolves: the in-flight flag
\* is eventually cleared, even if the advisor never answers.
C8_AdvisoryCallBounded == isAITurn ~> ~isAITurn

\* C9: a human move, an advisory request and a reset are never in progress
\* at the same time.
C9_MutatingOpsExclusive ==
  /\ ~(MoveInProgress /\ AdvisoryInProgress)
  /\ ~(MoveInProgress /\ ResetInProgress)
  /\ ~(AdvisoryInProgress /\ ResetInProgress)

\* C10: no observable state has the move history and the board out of step:
\* the board is always the position the move history leads to.
C10_NoPartialMutation == board = backendBoardToFrontend(ReplayCodes(moveHistory))

\* C11: when a reset completes (sendReset's request and the fetchBoard after
\* it both succeeded), the move history is empty, the board is the standard
\* starting position, white is to move and gameOver is false.
C11_ResetRestoresStart ==
  [][ResetCompleted =>
       /\ moveHistory' = <<>>
       /\ board' = getInitialBoard
       /\ turn' = "white"
       /\ ~gameOver']_vars

\* C12: once gameOver is true it stays true as long as the server's game,
\* not reset since, is over.
C12_GameOverMonotonic ==
  [][(gameOver /\ server.game_over) => gameOver']_vars

\* C13: a move whose source square is empty, or holds a piece of the colour
\* that is not to move, is rejected: while such a square is selected, board,
\* turn and move history change through reset only.
C13_InvalidSourceRejected ==
  [][InvalidSource =>
       (UNCHANGED <<board, turn, moveHistory>> \/ LocalResetStep)]_vars

\* movePiece was called with such a square selected, after a move was made
C13_Witness ==
  InvalidSource /\ lastOutcome = "rejected" /\ moveHistory # <<>>

\* C14: a move whose destination equals its source is rejected: no history
\* entry records a move from a square to the same square.
C14_SameSquareRejected ==
  \A i \in DOMAIN moveHistory : moveHistory[i][3] # moveHistory[i][4]

C15_HistoryRows ==
  [][/\ server'.move_history # server.move_history =>
          \/ server' = InitialGame
          \/ /\ Len(server'.move_history) = Len(server.move_history) + 1
             /\ \E c \in calls' : c.kind \in {"move", "aiplay"} /\ c.result = "ok"
                                   /\ c \notin calls
     /\ (\E c \in calls' : c.result = "rejected" /\ c \notin calls) =>
          UNCHANGED server
     /\ \A i \in DOMAIN moveHistory' :
          moveHistory'[i].turn_number = ((i - 1) \div 2) + 1
     /\ LET rows == groupedMoves(moveHistory')
        IN \A k \in DOMAIN rows :
             /\ rows[k].turn = k
             /\ rows[k].white = moveHistory'[2 * k - 1]
             /\ rows[k].white.color = "white"
             /\ 2 * k <= Len(moveHistory') =>
                  /\ rows[k].black = <<moveHistory'[2 * k]>>
                  /\ rows[k].black[1].color = "black"]_vars

\* a complete row is shown: white's and black's move of turn 1
C15_Witness ==
  /\ Len(moveHistory) = 2
  /\ groupedMoves(moveHistory)[1].black # <<>>

\* C16: turn changes only when one more move has been applied or a reset
\* completes, and white is to move exactly when the number of moves in
\* the history is even.
C16_TurnAlternates ==
  [][/\ turn' # turn =>
          (Len(moveHistory') = Len(moveHistory) + 1 \/ ResetReturned)
     /\ (turn' = "white") <=> (Len(moveHistory') % 2 = 0)]_vars

\* C18: gameOver is true exactly when the last move captured a King, and
\* then the winner shown is the colour that made that move.
C18_KingCaptureEndsGame ==
  moveHistory # <<>> =>
    LET last == moveHistory[Len(moveHistory)]
    IN /\ gameOver <=> (toUpperCase(last.captured_piece) = "K")
       /\ gameOver => (Winner = ColourName(last.color) /\ turn = Other(last.color))

\* white has captured the king on e8: White wins is shown
C18_Witness ==
  /\ gameOver
  /\ moveHistory # <<>>
  /\ board[<<0, 4>>].color = "white"
  /\ Winner = "White"

\* C19: a move attempted after the game is over is rejected and surfaced:
\* the step in which sendMove turns the attempt down changes nothing of
\* the game and leaves an error the caller can read.
C19_MoveAfterGameOverSurfaced ==
  [][(gameOver /\ lastOutcome # "ignored" /\ lastOutcome' = "ignored") =>
       (UNCHANGED gameVars /\ error' # NoError)]_vars

\* C20: a strategy whose cache size is outside 1..10 is rejected, the
\* server's configuration stays as it was and so does the configuration the
\* selector has read back; the configuration in force, on the server and as
\* read back and shown by the selector, always has a cache size in 1..10.
C20_InvalidConfigRejected ==
  [][/\ \A c \in calls' \ calls :
          (/\ c.kind = "strategy" /\ c.result # "pending"
           /\ (c.arg[2] = NaN \/ c.arg[2][1] \notin 1..10)) =>
            (c.result = "rejected" /\ UNCHANGED aiConfig)
     /\ \A c \in calls \ calls' :
          (c.kind = "strategy" /\ c.result = "rejected") =>
            selector'.config = selector.config
     /\ aiConfig'.cache_size \in 1..10
     /\ selector'.config # NoConfig =>
          selector'.config[1].cache_size \in 1..10]_vars

\* a request with cache size 11 was rejected; the selector shows a
\* configuration it has read back
C20_Witness ==
  /\ selector.config # NoConfig
  /\ \E c \in Calls("strategy") : c.result = "rejected" /\ c.arg[2] = <<11>>

----------------------------------------------------------------------------
(* The boundary representation and the responses the store takes in *)

\* the codes a square of the server's board carries
PieceCodes ==
  {"K", "Q", "R", "B", "N", "P", "k", "q", "r", "b", "n", "p"}

\* api.getBoard, api.makeMove or api.resetGame returns c's response to the
\* store in this step
StoreResponseReturned(c) ==
  /\ c \in calls /\ c \notin calls'
  /\ c.kind \in {"fetch", "move", "reset"}
  /\ c.result = "ok"
  /\ disruptions' = disruptions

\* the store's game is the one the response carries
StoreHolds(g) ==
  /\ board' = backendBoardToFrontend(g.board)
  /\ turn' = g.turn
  /\ gameOver' = g.game_over
  /\ moveHistory' = g.move_history

GameQuiet ==
  Calls("fetch") \cup Calls("move") \cup Calls("reset") \cup Calls("aiplay") = {}

\* C25: whenever no store request is in flight (and no advisory request,
\* and the last request did not fail), the store's board, turn, gameOver
\* and moveHistory are the server's current game: a response computed from
\* an older server state never overwrites the result of a later one.
C25_StoreMatchesServer ==
  (GameQuiet /\ error = NoError) =>
     /\ board = backendBoardToFrontend(server.board)
     /\ turn = server.turn
     /\ gameOver = server.game_over
     /\ moveHistory = server.move_history

\* a fetchBoard, sendMove or sendReset of the store is in flight
StoreRequestInFlight ==
  Calls("fetch") \cup Calls("move") \cup Calls("reset") # {}

\* C26: the store's loading flag is true in every state in which a store
\* request (fetchBoard, sendMove or sendReset) is in flight, also when two
\* requests overlap and the first of them has completed.
C26_LoadingWhileInFlight == StoreRequestInFlight => loading

\* C27: a selected square holds a piece of the colour to move, also across
\* resets, advisory moves, game-mode changes and board refreshes that
\* happen while a square is selected; so every move request the board
\* sends has a source square owned by the side to move.
C27_SelectionOwnedBySideToMove ==
  selectedSquare # NoSquare =>
     /\ board[selectedSquare] # NullPiece
     /\ board[selectedSquare].color = turn

\* handleSquareClick sends a move request in this step
HumanMoveSent ==
  \E c \in calls' : c.kind = "move" /\ c.result = "pending" /\ c \notin calls

\* the server applies the move of a human move request in this step
HumanMoveApplied ==
  /\ server' # server
  /\ \E c \in Pending("move") : c \notin calls'

\* C28: in human_vs_ai mode no human move request is sent while it is the
\* advisory side's turn or while an advisory request is outstanding, and no
\* human move is applied between the issue of an advisory request and the
\* arrival of its response.
C28_NoHumanMoveDuringAdvisory ==
  [][/\ (HumanMoveSent /\ gameMode = "human_vs_ai") =>
          (turn # aiColor /\ ~AdvisoryInProgress)
     /\ HumanMoveApplied => ~AdvisoryInProgress]_vars

\* setGameMode returns the server's acknowledgement of c in this step
ModeAcknowledged(c) ==
  /\ c \in Calls("mode") /\ c \notin calls'
  /\ c.result = "ok"
  /\ disruptions' = disruptions

\* C29: the client's game mode and AI colour change only when the server
\* acknowledges a setGameMode request, to the values of that request; and
\* when an acknowledgement leaves no mode-change request in flight they are
\* the mode and colour the server accepted last, also when several requests
\* were started before the first response arrived.
C29_ModeFollowsServer ==
  [][/\ <<gameMode, aiColor>>' # <<gameMode, aiColor>> =>
          \E c \in calls : /\ ModeAcknowledged(c)
                            /\ <<gameMode, aiColor>>' = <<c.arg[1], c.arg[2]>>
     /\ ((\E c \in calls : ModeAcknowledged(c)) /\ Calls("mode")' = {}) =>
          <<gameMode, aiColor>>' = serverMode']_vars

----------------------------------------------------------------------------
(* ChatInterface: the chat panel and the advisory service's converse *)

MaxChatSends == 2    \* messages the user sends in one run

\* what the user types into the input field
ChatTexts == {"", " ", "hi", " hi "}

\* inputMessage.trim()
trim(text) == IF text \in {"", " "} THEN "" ELSE "hi"

\* of tells apart the messages of different sends
userMessage(n) == [role |-> "user", content |-> trim(chat.inputMessage), of |-> n]

errorMessage(n) ==
  [role |-> "assistant",
   content |-> "Sorry, I encountered an error. Please try again.", of |-> n]

chatGameVars == <<storeVars, gameMode, aiColor, isAITurn, timeSinceLastMove,
                  effectPending, server, lastOutcome, disruptions, selector,
                  aiConfig, serverMode, planCache>>

\* the input field is disabled while loading
setInputMessage(text) ==
  /\ ~chat.isLoading
  /\ chat' = [chat EXCEPT !.inputMessage = text]
  /\ UNCHANGED <<calls, chatGameVars>>

\* the request carries the messages of the render in which the handler was
\* created: the history without the new user message
handleSendMessage ==
  /\ ~(trim(chat.inputMessage) = "" \/ chat.isLoading)
  /\ chat.sends < MaxChatSends
  /\ chat' = [chat EXCEPT
                !.messages = Append(@, userMessage(chat.sends + 1)),
                !.inputMessage = "",
                !.isLoading = TRUE,
                !.sends = @ + 1]
  /\ calls' = calls \cup
       {NewCall("chat", "send", <<userMessage(chat.sends + 1), chat.messages>>)}
  /\ UNCHANGED chatGameVars

\* converse(message, messageHistory): the updated history is the history
\* received, the message and the reply
ServerChat ==
  /\ \E c \in Pending("chat") :
       Respond(c, "ok",
               <<c.arg[2] \o <<c.arg[1],
                               [role |-> "assistant", content |-> "reply",
                                of |-> c.arg[1].of]>>>>)
  /\ UNCHANGED <<chat, chatGameVars>>

\* chatWithAI returns: setMessages(response.message_history); or it throws:
\* the error message is appended; finally setIsLoading(false)
chatWithAIDone ==
  /\ \E c \in Calls("chat") :
       /\ calls' = calls \ {c}
       /\ \/ /\ c.result = "ok"
             /\ chat' = [chat EXCEPT !.messages = c.data[1],
                                      !.isLoading = FALSE]
          \/ chat' = [chat EXCEPT
                        !.messages = Append(@, errorMessage(c.arg[1].of)),
                        !.isLoading = FALSE]
  /\ UNCHANGED chatGameVars

\* the clear button is enabled whatever isLoading says
clearChat ==
  /\ chat' = [chat EXCEPT !.messages = <<>>,
                          !.cleared = @ \cup Range(chat.messages)]
  /\ UNCHANGED <<calls, chatGameVars>>

ChatInitial ==
  /\ board = getInitialBoard /\ moveHistory = <<>> /\ turn = "white"
  /\ gameOver = FALSE /\ selectedSquare = NoSquare /\ loading = FALSE
  /\ error = NoError /\ gameMode = "human_vs_human" /\ aiColor = "black"
  /\ isAITurn = FALSE /\ timeSinceLastMove = MIN_INTERVAL
  /\ effectPending = FALSE /\ server = InitialGame /\ lastOutcome = "none"
  /\ disruptions = 0 /\ selector = SelectorInit /\ aiConfig = DefaultConfig
  /\ serverMode = <<"human_vs_human", "black">>
  /\ planCache = PlanCacheInit
  /\ chat = ChatInit
  /\ calls = {}

ChatNext ==
  \/ \E text \in ChatTexts : setInputMessage(text)
  \/ handleSendMessage
  \/ ServerChat
  \/ chatWithAIDone
  \/ clearChat

ChatSpec == ChatInitial /\ [][ChatNext]_vars

\* C30: in the chat panel at most one converse request is outstanding, and
\* no message that clearChat removed is displayed again, also when
\* clearChat runs while a request is in flight and its response arrives
\* afterwards.
C30_ClearedMessagesStayCleared ==
  /\ Cardinality(Calls("chat")) <= 1
  /\ \A i \in 1..Len(chat.messages) : chat.messages[i] \notin chat.cleared

----------------------------------------------------------------------------
(* PlanCache: refill and next, with MoveApplier and the advisory service.  *)
(* A request to the advisory service blocks; everything else is one step.  *)

MaxPlanLen == 2      \* entries of a Plan, the cacheDepth permitting
MaxRequests == 3     \* requests to the advisory service in one run
MaxPlanMoves == 3    \* moves applied to the board in one run

Fingerprint(g) == <<g.board, g.turn>>

\* the moves MoveApplier accepts on g, among the squares in play
MovesOn(g) ==
  {m \in ClickLabels \X ClickLabels : ValidMove(g, m[1], m[2])}

Depth(config) ==
  IF config.cache_size < MaxPlanLen THEN config.cache_size ELSE MaxPlanLen

\* the Plans a refill numbered id can build from g with at most k entries:
\* the advisor predicts a move of the colour, then the reply it anticipates,
\* and so on; each predicted move is replayed on the scratch copy g, whose
\* fingerprint before the move is the entry's expectedFingerprint
RECURSIVE PlanEntries(_, _, _)
PlanEntries(g, k, id) ==
  IF k = 0 \/ g.game_over THEN {<<>>}
  ELSE {<<>>} \cup UNION {
         LET entry == [move |-> m, expectedFingerprint |-> Fingerprint(g),
                       plan |-> id]
             moved == ApplyMove(g, m[1], m[2])
         IN IF moved.game_over \/ MovesOn(moved) = {} THEN {<<entry>>}
            ELSE UNION {{<<entry>> \o rest :
                           rest \in PlanEntries(ApplyMove(moved, r[1], r[2]),
                                                k - 1, id)} :
                        r \in MovesOn(moved)}
         : m \in MovesOn(g)}

RefillsInFlight(color) ==
  {r \in planCache.inflight : r.kind = "refill" /\ r.color = color}

\* variant: an outstanding refill is not looked for
RefillOutstanding_ignored(color) == FALSE

RefillOutstanding(color) == RefillsInFlight(color) # {}

\* variant: the front entry is served without the check
FrontMatches_unchecked(entry) == TRUE

FrontMatches(entry) == entry.expectedFingerprint = Fingerprint(server)

\* a request to the advisory service for the side to move
Request(kind) ==
  [id |-> planCache.requests + 1, kind |-> kind, color |-> server.turn,
   game |-> server]

planOtherVars == <<storeVars, gameMode, aiColor, isAITurn, timeSinceLastMove,
                   effectPending, calls, lastOutcome, disruptions, selector,
                   serverMode, chat>>

\* the entry is returned and MoveApplier applies its move to the live board
ServeEntry(entry, rest, inflight, kind) ==
  /\ server' = ApplyMove(server, entry.move[1], entry.move[2])
  /\ planCache' = [planCache EXCEPT
                     !.plan = rest, !.inflight = inflight,
                     !.last = [kind |-> kind, entry |-> entry]]

\* mismatch: the whole Plan is discarded and a single-move request is made
Fallback(entry, inflight, kind) ==
  /\ planCache.requests < MaxRequests
  /\ planCache' = [planCache EXCEPT
                     !.plan = NoPlan,
                     !.inflight = inflight \cup {Request("single")},
                     !.requests = @ + 1,
                     !.discarded = @ \cup {entry.plan},
                     !.last = [kind |-> kind, entry |-> entry]]
  /\ UNCHANGED server

\* a request of the given kind is made for the side to move
Issue(kind, outcome) ==
  /\ planCache.requests < MaxRequests
  /\ planCache' = [planCache EXCEPT
                     !.inflight = @ \cup {Request(kind)},
                     !.requests = @ + 1,
                     !.last = [kind |-> outcome, id |-> planCache.requests + 1]]
  /\ UNCHANGED server

\* PlanCache.next(board), called for the side to move
PlanCache_next ==
  /\ ~server.game_over
  /\ Len(server.move_history) < MaxPlanMoves
  /\ IF ~aiConfig.use_multi_move_cache
       THEN Issue("single", "direct")
       ELSE IF planCache.plan # NoPlan
         THEN IF FrontMatches(Head(planCache.plan))
                THEN ServeEntry(Head(planCache.plan), Tail(planCache.plan),
                                planCache.inflight, "hit")
                ELSE Fallback(Head(planCache.plan), planCache.inflight,
                              "fallback")
         ELSE IF RefillOutstanding(server.turn)
                THEN /\ planCache' = [planCache EXCEPT
                                        !.last = [kind |-> "coalesced"]]
                     /\ UNCHANGED server
                ELSE Issue("refill", "miss")
  /\ UNCHANGED <<aiConfig, planOtherVars>>

\* planMoves returns to refill: the Plan is stored and next returns its
\* first entry, checked against the live board; or planMoves failed
PlanCache_refillDone ==
  /\ \E r \in planCache.inflight :
       /\ r.kind = "refill"
       /\ \/ /\ planCache' = [planCache EXCEPT
                                !.inflight = @ \ {r},
                                !.last = [kind |-> "failed", id |-> r.id]]
             /\ UNCHANGED server
          \/ \E p \in PlanEntries(r.game, Depth(aiConfig), r.id) \ {<<>>} :
               IF FrontMatches(Head(p))
                 THEN ServeEntry(Head(p), Tail(p), planCache.inflight \ {r},
                                 "refilled")
                 ELSE Fallback(Head(p), planCache.inflight \ {r},
                               "refilled-fallback")
  /\ UNCHANGED <<aiConfig, planOtherVars>>

\* suggestMove returns: MoveApplier applies the move if it accepts it
suggestMoveDone ==
  /\ \E r \in planCache.inflight :
       /\ r.kind = "single"
       /\ planCache' = [planCache EXCEPT
                          !.inflight = @ \ {r},
                          !.last = [kind |-> "suggested", id |-> r.id]]
       /\ \/ UNCHANGED server
          \/ \E m \in MovesOn(r.game) :
               /\ ValidMove(server, m[1], m[2])
               /\ Len(server.move_history) < MaxPlanMoves
               /\ server' = ApplyMove(server, m[1], m[2])
  /\ UNCHANGED <<aiConfig, planOtherVars>>

\* MoveApplier.apply for a move that arrives from the board
MoveApplier_apply(from, to) ==
  /\ ValidMove(server, from, to)
  /\ Len(server.move_history) < MaxPlanMoves
  /\ server' = ApplyMove(server, from, to)
  /\ UNCHANGED <<aiConfig, planCache, planOtherVars>>

\* an accepted ConfigurationStore.set
SetStrategy(config) ==
  /\ ConfigurationStore_set(config)
  /\ UNCHANGED <<server, planOtherVars>>

PlanInit ==
  /\ board = getInitialBoard /\ moveHistory = <<>> /\ turn = "white"
  /\ gameOver = FALSE /\ selectedSquare = NoSquare /\ loading = FALSE
  /\ error = NoError /\ gameMode = "human_vs_human" /\ aiColor = "black"
  /\ isAITurn = FALSE /\ timeSinceLastMove = MIN_INTERVAL
  /\ effectPending = FALSE /\ server = InitialGame /\ lastOutcome = "none"
  /\ disruptions = 0 /\ selector = SelectorInit /\ aiConfig = DefaultConfig
  /\ serverMode = <<"human_vs_human", "black">>
  /\ planCache = PlanCacheInit
  /\ chat = ChatInit
  /\ calls = {}

PlanNext ==
  \/ PlanCache_next
  \/ PlanCache_refillDone
  \/ suggestMoveDone
  \/ \E from \in ClickLabels, to \in ClickLabels : MoveApplier_apply(from, to)
  \/ \E config \in ValidConfigs : SetStrategy(config)

PlanSpec == PlanInit /\ [][PlanNext]_vars

----------------------------------------------------------------------------
(* Steps of the PlanCache the properties speak about *)

\* PlanCache.next runs in this step
AccessStep ==
  /\ planCache' # planCache
  /\ aiConfig' = aiConfig
  /\ planCache.inflight \subseteq planCache'.inflight

\* an entry of a Plan is returned and applied in this step
ServedStep ==
  /\ planCache' # planCache
  /\ server' # server
  /\ planCache'.last.kind \in {"hit", "refilled"}

NewRequests(kind) ==
  {r \in planCache'.inflight \ planCache.inflight : r.kind = kind}

C22_FingerprintChecked ==
  [][/\ ServedStep =>
          /\ planCache'.last.entry.expectedFingerprint = Fingerprint(server)
          /\ planCache'.last.entry.plan \notin planCache'.discarded
     /\ (/\ AccessStep /\ aiConfig.use_multi_move_cache
         /\ planCache.plan # NoPlan
         /\ Head(planCache.plan).expectedFingerprint # Fingerprint(server)) =>
          /\ planCache'.plan = NoPlan
          /\ server' = server
          /\ NewRequests("single") # {}]_vars

\* the first entry of a Plan was served, a move the Plan did not anticipate
\* was applied, and the access after it found the mismatch
C22_Witness ==
  /\ planCache.last.kind = "fallback"
  /\ planCache.plan = NoPlan
  /\ planCache.last.entry.plan \in planCache.discarded
  /\ Len(server.move_history) >= 2

\* C23: at most one refill per colour is in flight at any time; an access
\* that comes while a refill for the colour is outstanding is coalesced
\* into it and makes no request to the advisory service.
C23_OneRefillPerColour ==
  [][/\ \A color \in {"white", "black"} :
          /\ Cardinality(RefillsInFlight(color)) <= 1
          /\ Cardinality(RefillsInFlight(color)') <= 1
     /\ (/\ AccessStep /\ aiConfig.use_multi_move_cache
         /\ planCache.plan = NoPlan
         /\ RefillsInFlight(server.turn) # {}) =>
          /\ planCache'.requests = planCache.requests
          /\ planCache'.inflight = planCache.inflight]_vars

\* an access was coalesced into the refill that is outstanding
C23_Witness ==
  /\ planCache.last.kind = "coalesced"
  /\ Cardinality(RefillsInFlight(server.turn)) = 1
====
